---- MODULE Spec2Model ----
(***************************************************************************)
(* Model of FYP/src/simulation.py (the Monte Carlo delivery-time script)   *)
(* and FYP/src/scoring_model.py (calculate_scores).                        *)
(*                                                                         *)
(* Floating-point values are modelled as exact extended rationals          *)
(* [num, den]: den > 0 is a finite value, <<1,0>> is +inf, <<-1,0>> is     *)
(* -inf and <<0,0>> is NaN, with the IEEE results of x/0 and 0/0 that      *)
(* numpy and pandas produce without raising.                               *)
(*                                                                         *)
(* numpy's global generator is modelled as a position rng in an output     *)
(* table mt that is fixed for the whole behaviour: np.random.seed(s) moves *)
(* to the position s selects, a draw of n samples reads n entries and      *)
(* advances the position by n.  An entry is a quantile level 0..Grid,      *)
(* mapped onto the distribution's range by uniform / normal.               *)
(***************************************************************************)
EXTENDS Integers, Sequences, FiniteSets, TLC

\* ---------------------------------------------------------------- bounds
\* Trials per station standing in for N_SIMULATIONS = 10000.
MaxTrials == 2
\* Quantile resolution of a generator output: levels 0..Grid.
Grid == 2
\* Length of the generator's output table in the reference runs.
Period == 3
\* Trials per station in the runs that enumerate every draw outcome.
DrawTrials == 1
\* Length of the generator's output table in those runs: one entry per
\* draw of a single-trial station iteration.
DrawPeriod == 10

\* ------------------------------------------------------- float arithmetic
Abs(n) == IF n < 0 THEN -n ELSE n

Sign(n) == IF n < 0 THEN -1 ELSE IF n > 0 THEN 1 ELSE 0

RECURSIVE GCD(_, _)
GCD(a, b) == IF b = 0 THEN a ELSE GCD(b, a % b)

\* The float n/d in lowest terms; d = 0 gives +inf, -inf or NaN.
F(n, d) ==
  IF d = 0 THEN [num |-> Sign(n), den |-> 0]
  ELSE LET g == GCD(Abs(n), Abs(d))
           s == IF d < 0 THEN -1 ELSE 1
       IN [num |-> s * (n \div g), den |-> s * (d \div g)]

NaN == [num |-> 0, den |-> 0]

IsNaN(x) == x.den = 0 /\ x.num = 0

IsFinite(x) == x.den # 0

FNeg(x) == [num |-> -x.num, den |-> x.den]

FAdd(a, b) ==
  IF IsNaN(a) \/ IsNaN(b) THEN NaN
  ELSE IF a.den = 0 /\ b.den = 0 THEN (IF a.num = b.num THEN a ELSE NaN)
  ELSE IF a.den = 0 THEN a
  ELSE IF b.den = 0 THEN b
  ELSE F(a.num * b.den + b.num * a.den, a.den * b.den)

FSub(a, b) == FAdd(a, FNeg(b))

FMul(a, b) == F(a.num * b.num, a.den * b.den)

\* a / b as IEEE division: x/0 is +-inf, 0/0 is NaN, nothing is raised.
FDiv(a, b) == FMul(a, F(b.den, b.num))

\* Comparisons are false when an operand is NaN.
FLt(a, b) == ~IsNaN(a) /\ ~IsNaN(b) /\ a.num * b.den < b.num * a.den

FLe(a, b) == ~IsNaN(a) /\ ~IsNaN(b) /\ a.num * b.den <= b.num * a.den

\* The largest r in lo..hi with r * r <= n, by bisection.
RECURSIVE ISqrtIn(_, _, _)
ISqrtIn(n, lo, hi) ==
  IF lo >= hi THEN lo
  ELSE LET mid == (lo + hi + 1) \div 2
       IN IF mid * mid <= n THEN ISqrtIn(n, mid, hi)
          ELSE ISqrtIn(n, lo, mid - 1)

\* The square root of a finite non-negative float, to one decimal place.
FSqrt(x) ==
  IF ~IsFinite(x) \/ x.num < 0 THEN NaN
  ELSE LET n == (x.num * 100) \div x.den
       IN F(ISqrtIn(n, 0, IF n < 40000 THEN n ELSE 40000), 10)

\* ------------------------------------------------------ array operations
RECURSIVE FSum(_)
FSum(a) == IF a = <<>> THEN F(0, 1) ELSE FAdd(Head(a), FSum(Tail(a)))

\* np.mean: the arithmetic mean; of an empty array it is NaN (0/0).
Mean(a) == FDiv(FSum(a), F(Len(a), 1))

\* np.std: the population standard deviation, sqrt(mean(|x - mean|^2)).
Std(a) ==
  LET m == Mean(a)
      dev == [i \in 1..Len(a) |-> FMul(FSub(a[i], m), FSub(a[i], m))]
  IN FSqrt(Mean(dev))

\* np.percentile(a, q), linear interpolation at the virtual index
\* (len - 1) * q / 100 of the sorted array.
Percentile(a, q) ==
  LET s == SortSeq(a, FLt)
      h == (Len(a) - 1) * q
      lo == h \div 100
      g == F(h % 100, 100)
  IN IF Len(a) = 0 THEN NaN
     ELSE IF lo + 2 > Len(a) THEN s[lo + 1]
     ELSE FAdd(s[lo + 1], FMul(g, FSub(s[lo + 2], s[lo + 1])))

\* VecSum with the second array read back to front.
VecSumMisaligned(arrays) ==
  [i \in 1..Len(arrays[1]) |->
     FSum([k \in 1..Len(arrays) |->
             IF k = 2 THEN arrays[k][Len(arrays[1]) + 1 - i]
             ELSE arrays[k][i]])]

\* Element-wise sum of a sequence of equally long arrays (a + b + ...).
VecSum(arrays) ==
  [i \in 1..Len(arrays[1]) |->
     FSum([k \in 1..Len(arrays) |-> arrays[k][i]])]

\* ------------------------------------------- configuration (PHASE 1)
\* MODEL A: TRADITIONAL TRUCK, (min, max) minutes per manual operation.
TRUCK_OPS ==
  [loading |-> <<15, 25>>, unloading |-> <<15, 25>>, last_mile |-> <<10, 20>>]

\* MODEL B: MTR + DRONE, (min, max) minutes per multi-modal step.
MTR_OPS ==
  [first_mile |-> <<5, 15>>, wait_time |-> <<0, 6>>, transfer |-> <<8, 12>>,
   drone_load |-> <<3, 5>>, flight |-> <<3, 5>>]

\* The station table, in the insertion order that .items() iterates.
STATIONS_DB ==
  << [name |-> "Admiralty",      mtr_time |-> 29, truck_range |-> <<35, 75>>],
     [name |-> "Exhibition Ctr", mtr_time |-> 27, truck_range |-> <<35, 70>>],
     [name |-> "Hung Hom",       mtr_time |-> 22, truck_range |-> <<25, 55>>],
     [name |-> "Mong Kok East",  mtr_time |-> 18, truck_range |-> <<20, 45>>],
     [name |-> "Kowloon Tong",   mtr_time |-> 15, truck_range |-> <<20, 45>>],
     [name |-> "Tai Wai",        mtr_time |-> 11, truck_range |-> <<15, 30>>],
     [name |-> "Sha Tin",        mtr_time |-> 8,  truck_range |-> <<12, 25>>],
     [name |-> "Fo Tan",         mtr_time |-> 5,  truck_range |-> <<10, 20>>],
     [name |-> "University",     mtr_time |-> 3,  truck_range |-> <<8, 15>> ] >>

\* scale=0.5 of the rail-transit np.random.normal call.
RAIL_SCALE == F(1, 2)

\* The seed given to np.random.seed.
SEED == 42

\* The configuration the script is written with, for n trials per station.
Reference(n) ==
  [TRUCK_OPS |-> TRUCK_OPS, MTR_OPS |-> MTR_OPS, STATIONS_DB |-> STATIONS_DB,
   scale |-> RAIL_SCALE, N_SIMULATIONS |-> n]

\* The order pandas sorts the Station index of a pivot in.
Alphabetical ==
  << "Admiralty", "Exhibition Ctr", "Fo Tan", "Hung Hom", "Kowloon Tong",
     "Mong Kok East", "Sha Tin", "Tai Wai", "University" >>

Unbound == <<>>

NoLocals ==
  [load |-> Unbound, unload |-> Unbound, last |-> Unbound, road |-> Unbound,
   first |-> Unbound, wait |-> Unbound, transfer |-> Unbound,
   drone_load |-> Unbound, flight |-> Unbound, rail |-> Unbound]

NoTable == [index |-> <<>>, cols |-> <<>>]

VARIABLES
  cfg,               \* TRUCK_OPS, MTR_OPS, STATIONS_DB, scale, N_SIMULATIONS
  mt,                \* the generator's output table (quantile level by position)
  rng,               \* the global generator's state: its position in mt
  seedCalls,         \* np.random.seed calls made by this process
  pc,                \* the statement the script is at
  idx,               \* position of the for loop in STATIONS_DB.items()
  station, data,     \* the loop variables
  t,                 \* t_load, t_unload, ..., t_rail
  total_time_truck, total_time_mtr,
  results_data, df_results, comparison_table,
  drawLog,           \* history of the draws this process has made
  run,               \* which execution of the script this is
  prev,              \* df_results of the previous execution
  data_dict, scores, spc   \* scoring_model.py: the input, the result, the position

simVars ==
  << cfg, mt, rng, seedCalls, pc, idx, station, data, t, total_time_truck,
     total_time_mtr, results_data, df_results, comparison_table, drawLog,
     run, prev >>

scoreVars == << data_dict, scores, spc >>

vars == << simVars, scoreVars >>

N_SIMULATIONS == cfg.N_SIMULATIONS

\* ------------------------------------------------------- the generator
\* SeedState when the call leaves the generator as it found it.
SeedStateKept(s) == rng

\* The state np.random.seed(s) puts the generator in.
SeedState(s) == s % Len(mt)

\* The state after n samples were drawn in state r.
Advance(r, n) == (r + n) % Len(mt)

\* The quantile levels of the n samples drawn in state r.
Levels(r, n) == [j \in 1..n |-> mt[((r + j - 1) % Len(mt)) + 1]]

\* uniform scaled by high instead of by high - low.
uniformWide(low, high, level) ==
  FAdd(F(low, 1), FMul(F(high, 1), F(level, Grid)))

\* One sample of np.random.uniform(low, high) at a quantile level.
uniform(low, high, level) ==
  FAdd(F(low, 1), FMul(FSub(F(high, 1), F(low, 1)), F(level, Grid)))

\* One sample of np.random.normal(loc, scale) at a quantile level: the
\* levels span loc - 3*scale .. loc + 3*scale.
normal(loc, scale, level) ==
  FAdd(F(loc, 1), FMul(scale, F(6 * level - 3 * Grid, Grid)))

\* ---------------------------------------- PHASE 2: the simulation engine
\* np.random.seed(42)
Seed ==
  /\ pc = "seed"
  /\ rng' = SeedState(SEED)
  /\ seedCalls' = seedCalls + 1
  /\ pc' = "results_data"
  /\ UNCHANGED << cfg, mt, idx, station, data, t, total_time_truck,
                  total_time_mtr, results_data, df_results, comparison_table,
                  drawLog, run, prev, scoreVars >>

\* results_data = []
InitResults ==
  /\ pc = "results_data"
  /\ results_data' = <<>>
  /\ pc' = "for"
  /\ UNCHANGED << cfg, mt, rng, seedCalls, idx, station, data, t,
                  total_time_truck, total_time_mtr, df_results,
                  comparison_table, drawLog, run, prev, scoreVars >>

\* LoopHead with the generator seeded again at every iteration.
LoopHeadReseeding ==
  /\ pc = "for"
  /\ IF idx < Len(cfg.STATIONS_DB)
     THEN /\ idx' = idx + 1
          /\ station' = cfg.STATIONS_DB[idx + 1].name
          /\ data' = cfg.STATIONS_DB[idx + 1]
          /\ rng' = SeedState(SEED)
          /\ seedCalls' = seedCalls + 1
          /\ pc' = "t_load"
     ELSE /\ pc' = "df_results"
          /\ UNCHANGED << idx, station, data, rng, seedCalls >>
  /\ UNCHANGED << cfg, mt, t, total_time_truck, total_time_mtr, results_data,
                  df_results, comparison_table, drawLog, run, prev,
                  scoreVars >>

\* for station, data in STATIONS_DB.items():
LoopHead ==
  /\ pc = "for"
  /\ IF idx < Len(cfg.STATIONS_DB)
     THEN /\ idx' = idx + 1
          /\ station' = cfg.STATIONS_DB[idx + 1].name
          /\ data' = cfg.STATIONS_DB[idx + 1]
          /\ pc' = "t_load"
     ELSE /\ pc' = "df_results"
          /\ UNCHANGED << idx, station, data >>
  /\ UNCHANGED << cfg, mt, rng, seedCalls, t, total_time_truck,
                  total_time_mtr, results_data, df_results, comparison_table,
                  drawLog, run, prev, scoreVars >>

\* step = np.random.uniform(low, high, N_SIMULATIONS)
\* numpy does not compare low with high: with low > high it samples
\* low + (high - low) * u all the same.
DrawUniform(step, low, high, next) ==
  LET samples == [j \in 1..N_SIMULATIONS |->
                    uniform(low, high, Levels(rng, N_SIMULATIONS)[j])]
  IN /\ t' = [t EXCEPT ![step] = samples]
     /\ rng' = Advance(rng, N_SIMULATIONS)
     /\ drawLog' = Append(drawLog,
          [station |-> station, step |-> step, before |-> rng,
           after |-> rng', low |-> low, high |-> high, samples |-> samples])
     /\ pc' = next
     /\ UNCHANGED << cfg, mt, seedCalls, idx, station, data, total_time_truck,
                     total_time_mtr, results_data, df_results,
                     comparison_table, run, prev, scoreVars >>

DrawLoad ==
  /\ pc = "t_load"
  /\ DrawUniform("load", cfg.TRUCK_OPS.loading[1], cfg.TRUCK_OPS.loading[2],
                 "t_unload")

DrawUnload ==
  /\ pc = "t_unload"
  /\ DrawUniform("unload", cfg.TRUCK_OPS.unloading[1],
                 cfg.TRUCK_OPS.unloading[2], "t_last")

DrawLast ==
  /\ pc = "t_last"
  /\ DrawUniform("last", cfg.TRUCK_OPS.last_mile[1],
                 cfg.TRUCK_OPS.last_mile[2], "t_road")

\* DrawRoad drawing the road leg from the last-mile range.
DrawRoadLastMile ==
  /\ pc = "t_road"
  /\ DrawUniform("road", cfg.TRUCK_OPS.last_mile[1],
                 cfg.TRUCK_OPS.last_mile[2], "total_time_truck")

DrawRoad ==
  /\ pc = "t_road"
  /\ DrawUniform("road", data.truck_range[1], data.truck_range[2],
                 "total_time_truck")

\* total_time_truck = t_load + t_road + t_unload + t_last
SumTruck ==
  /\ pc = "total_time_truck"
  /\ total_time_truck' = VecSum(<< t.load, t.road, t.unload, t.last >>)
  /\ pc' = "t_first"
  /\ UNCHANGED << cfg, mt, rng, seedCalls, idx, station, data, t,
                  total_time_mtr, results_data, df_results, comparison_table,
                  drawLog, run, prev, scoreVars >>

DrawFirst ==
  /\ pc = "t_first"
  /\ DrawUniform("first", cfg.MTR_OPS.first_mile[1],
                 cfg.MTR_OPS.first_mile[2], "t_wait")

DrawWait ==
  /\ pc = "t_wait"
  /\ DrawUniform("wait", cfg.MTR_OPS.wait_time[1], cfg.MTR_OPS.wait_time[2],
                 "t_transfer")

DrawTransfer ==
  /\ pc = "t_transfer"
  /\ DrawUniform("transfer", cfg.MTR_OPS.transfer[1],
                 cfg.MTR_OPS.transfer[2], "t_drone_load")

DrawDroneLoad ==
  /\ pc = "t_drone_load"
  /\ DrawUniform("drone_load", cfg.MTR_OPS.drone_load[1],
                 cfg.MTR_OPS.drone_load[2], "t_flight")

DrawFlight ==
  /\ pc = "t_flight"
  /\ DrawUniform("flight", cfg.MTR_OPS.flight[1], cfg.MTR_OPS.flight[2],
                 "t_rail")

\* t_rail = np.random.normal(loc=data["mtr_time"], scale=0.5, size=N)
\* numpy raises ValueError("scale < 0") before sampling.
DrawRail ==
  /\ pc = "t_rail"
  /\ IF FLt(cfg.scale, F(0, 1))
     THEN /\ pc' = "ValueError"
          /\ UNCHANGED << rng, t, drawLog >>
     ELSE LET samples == [j \in 1..N_SIMULATIONS |->
                normal(data.mtr_time, cfg.scale,
                       Levels(rng, N_SIMULATIONS)[j])]
          IN /\ t' = [t EXCEPT !.rail = samples]
             /\ rng' = Advance(rng, N_SIMULATIONS)
             /\ drawLog' = Append(drawLog,
                  [station |-> station, step |-> "rail", before |-> rng,
                   after |-> rng', low |-> data.mtr_time,
                   high |-> data.mtr_time, samples |-> samples])
             /\ pc' = "total_time_mtr"
  /\ UNCHANGED << cfg, mt, seedCalls, idx, station, data, total_time_truck,
                  total_time_mtr, results_data, df_results, comparison_table,
                  run, prev, scoreVars >>

\* total_time_mtr = t_first + t_wait + t_rail + t_transfer + t_drone_load
\*                  + t_flight
SumMtr ==
  /\ pc = "total_time_mtr"
  /\ total_time_mtr' =
       VecSum(<< t.first, t.wait, t.rail, t.transfer, t.drone_load,
                 t.flight >>)
  /\ pc' = "record_truck"
  /\ UNCHANGED << cfg, mt, rng, seedCalls, idx, station, data, t,
                  total_time_truck, results_data, df_results,
                  comparison_table, drawLog, run, prev, scoreVars >>

\* The row the script builds from one total-time array.
StatsRow(name, mode, total) ==
  [Station |-> name, Mode |-> mode, Average_Time |-> Mean(total),
   P95_Time |-> Percentile(total, 95), Std_Dev |-> Std(total)]

\* results_data.append({... "Mode": "Traditional Truck" ...})
RecordTruck ==
  /\ pc = "record_truck"
  /\ results_data' =
       Append(results_data,
              StatsRow(station, "Traditional Truck", total_time_truck))
  /\ pc' = "record_mtr"
  /\ UNCHANGED << cfg, mt, rng, seedCalls, idx, station, data, t,
                  total_time_truck, total_time_mtr, df_results,
                  comparison_table, drawLog, run, prev, scoreVars >>

\* results_data.append({... "Mode": "MTR + Drone" ...})
RecordMtr ==
  /\ pc = "record_mtr"
  /\ results_data' =
       Append(results_data, StatsRow(station, "MTR + Drone", total_time_mtr))
  /\ pc' = "for"
  /\ UNCHANGED << cfg, mt, rng, seedCalls, idx, station, data, t,
                  total_time_truck, total_time_mtr, df_results,
                  comparison_table, drawLog, run, prev, scoreVars >>

\* df_results = pd.DataFrame(results_data)
BuildDataFrame ==
  /\ pc = "df_results"
  /\ df_results' = results_data
  /\ pc' = "pivot"
  /\ UNCHANGED << cfg, mt, rng, seedCalls, idx, station, data, t,
                  total_time_truck, total_time_mtr, results_data,
                  comparison_table, drawLog, run, prev, scoreVars >>

\* ------------------------------------------------- the comparison table
\* Whether two rows of the frame share their (Station, Mode) pair.
HasDuplicates(df) ==
  \E i, j \in 1..Len(df) :
    i # j /\ df[i].Station = df[j].Station /\ df[i].Mode = df[j].Mode

\* PivotCell taking the first row of the mode, whatever its station.
PivotCellAnyStation(df, s, m) ==
  LET hits == {i \in 1..Len(df) : df[i].Mode = m}
  IN IF hits = {} THEN NaN
     ELSE df[CHOOSE i \in hits : \A j \in hits : i <= j].Average_Time

\* The pivoted cell (s, m): Average_Time of the row of that station and
\* mode, NaN when the frame has no such row.
PivotCell(df, s, m) ==
  LET hits == {i \in 1..Len(df) : df[i].Station = s /\ df[i].Mode = m}
  IN IF hits = {} THEN NaN ELSE df[CHOOSE i \in hits : TRUE].Average_Time

\* The Station index of the pivot: the frame's stations, sorted.
PivotIndex(df) ==
  SelectSeq(Alphabetical, LAMBDA s : \E i \in 1..Len(df) : df[i].Station = s)

\* comparison_table = df_results.pivot(index="Station", columns="Mode",
\*                                     values="Average_Time")
\* pandas raises ValueError when an (index, column) pair occurs twice.
Pivot ==
  /\ pc = "pivot"
  /\ IF HasDuplicates(df_results)
     THEN /\ pc' = "ValueError"
          /\ UNCHANGED comparison_table
     ELSE LET index == PivotIndex(df_results)
              col(m) == [i \in 1..Len(index) |->
                           PivotCell(df_results, index[i], m)]
          IN /\ comparison_table' =
                  [index |-> index,
                   cols |-> ("MTR + Drone" :> col("MTR + Drone")) @@
                            ("Traditional Truck" :> col("Traditional Truck"))]
             /\ pc' = "time_saved"
  /\ UNCHANGED << cfg, mt, rng, seedCalls, idx, station, data, t,
                  total_time_truck, total_time_mtr, results_data, df_results,
                  drawLog, run, prev, scoreVars >>

\* TimeSaved with the operands swapped.
TimeSavedReversed ==
  /\ pc = "time_saved"
  /\ LET c == comparison_table.cols
     IN comparison_table' =
          [comparison_table EXCEPT !.cols =
             ("Time Saved (min)" :>
                [i \in 1..Len(comparison_table.index) |->
                   FSub(c["MTR + Drone"][i], c["Traditional Truck"][i])]) @@ c]
  /\ pc' = "improvement"
  /\ UNCHANGED << cfg, mt, rng, seedCalls, idx, station, data, t,
                  total_time_truck, total_time_mtr, results_data, df_results,
                  drawLog, run, prev, scoreVars >>

\* comparison_table["Time Saved (min)"] =
\*     comparison_table["Traditional Truck"] - comparison_table["MTR + Drone"]
TimeSaved ==
  /\ pc = "time_saved"
  /\ LET c == comparison_table.cols
     IN comparison_table' =
          [comparison_table EXCEPT !.cols =
             ("Time Saved (min)" :>
                [i \in 1..Len(comparison_table.index) |->
                   FSub(c["Traditional Truck"][i], c["MTR + Drone"][i])]) @@ c]
  /\ pc' = "improvement"
  /\ UNCHANGED << cfg, mt, rng, seedCalls, idx, station, data, t,
                  total_time_truck, total_time_mtr, results_data, df_results,
                  drawLog, run, prev, scoreVars >>

\* comparison_table["Improvement (%)"] =
\*     (comparison_table["Time Saved (min)"]
\*      / comparison_table["Traditional Truck"]) * 100
Improvement ==
  /\ pc = "improvement"
  /\ LET c == comparison_table.cols
     IN comparison_table' =
          [comparison_table EXCEPT !.cols =
             ("Improvement (%)" :>
                [i \in 1..Len(comparison_table.index) |->
                   FMul(FDiv(c["Time Saved (min)"][i],
                             c["Traditional Truck"][i]),
                        F(100, 1))]) @@ c]
  /\ pc' = "done"
  /\ UNCHANGED << cfg, mt, rng, seedCalls, idx, station, data, t,
                  total_time_truck, total_time_mtr, results_data, df_results,
                  drawLog, run, prev, scoreVars >>

\* ------------------------------------------------------------ processes
\* The states a fresh interpreter can start the script in: nothing is
\* bound, and numpy has seeded its global generator from OS entropy.
Fresh ==
  /\ rng \in 0..(Len(mt) - 1)
  /\ seedCalls = 0
  /\ pc = "seed"
  /\ idx = 0
  /\ station = Unbound
  /\ data = Unbound
  /\ t = NoLocals
  /\ total_time_truck = Unbound
  /\ total_time_mtr = Unbound
  /\ results_data = Unbound
  /\ df_results = Unbound
  /\ comparison_table = NoTable
  /\ drawLog = <<>>

ScoringIdle ==
  /\ data_dict = Unbound
  /\ scores = Unbound
  /\ spc = "idle"

\* The script is run a second time, in a new process, with the same
\* configuration; the table of the first run is kept for comparison.
Rerun ==
  /\ pc = "done"
  /\ run = 1
  /\ run' = 2
  /\ prev' = df_results
  /\ rng' \in 0..(Len(mt) - 1)
  /\ seedCalls' = 0
  /\ pc' = "seed"
  /\ idx' = 0
  /\ station' = Unbound
  /\ data' = Unbound
  /\ t' = NoLocals
  /\ total_time_truck' = Unbound
  /\ total_time_mtr' = Unbound
  /\ results_data' = Unbound
  /\ df_results' = Unbound
  /\ comparison_table' = NoTable
  /\ drawLog' = <<>>
  /\ UNCHANGED << cfg, mt, scoreVars >>

\* One statement of simulation.py.
Script ==
  \/ Seed \/ InitResults \/ LoopHead
  \/ DrawLoad \/ DrawUnload \/ DrawLast \/ DrawRoad \/ SumTruck
  \/ DrawFirst \/ DrawWait \/ DrawTransfer \/ DrawDroneLoad \/ DrawFlight
  \/ DrawRail \/ SumMtr
  \/ RecordTruck \/ RecordMtr
  \/ BuildDataFrame \/ Pivot \/ TimeSaved \/ Improvement

\* The reference run: the script's own configuration, every generator
\* table of length Period, executed twice.
Init ==
  /\ cfg = Reference(MaxTrials)
  /\ mt \in [1..Period -> 0..Grid]
  /\ Fresh
  /\ run = 1
  /\ prev = Unbound
  /\ ScoringIdle

Next == Script \/ Rerun

Spec == Init /\ [][Next]_vars

\* Every outcome of the draws of a station iteration: the generator table
\* has an entry of its own for each draw, at either end of the range.
InitDraws ==
  /\ cfg = Reference(DrawTrials)
  /\ mt \in [1..DrawPeriod -> {0, Grid}]
  /\ Fresh
  /\ run = 1
  /\ prev = Unbound
  /\ ScoringIdle

SpecDraws == InitDraws /\ [][Script]_vars

\* ------------------------------------------- other configurations
\* db with the entry of one station replaced.
SetStation(db, name, rec) ==
  [k \in 1..Len(db) |-> IF db[k].name = name THEN rec ELSE db[k]]

\* Fo Tan's truck_range written as (10, 5).
InvertedRange ==
  [Reference(MaxTrials) EXCEPT !.STATIONS_DB =
     SetStation(STATIONS_DB, "Fo Tan",
                [name |-> "Fo Tan", mtr_time |-> 5, truck_range |-> <<10, 5>>])]

\* The rail step's scale written as -0.5.
NegativeScale == [Reference(MaxTrials) EXCEPT !.scale = F(-1, 2)]

\* Every truck step of University takes no time.
ZeroTruck ==
  [Reference(MaxTrials) EXCEPT
     !.TRUCK_OPS = [loading |-> <<0, 0>>, unloading |-> <<0, 0>>,
                    last_mile |-> <<0, 0>>],
     !.STATIONS_DB =
       SetStation(STATIONS_DB, "University",
                  [name |-> "University", mtr_time |-> 3,
                   truck_range |-> <<0, 0>>])]

Configurations ==
  {Reference(MaxTrials), InvertedRange, NegativeScale, ZeroTruck}

\* The script run once with each of these tables in place of its own.
InitConfig ==
  /\ cfg \in Configurations
  /\ mt \in [1..Period -> 0..Grid]
  /\ Fresh
  /\ run = 1
  /\ prev = Unbound
  /\ ScoringIdle

SpecConfig == InitConfig /\ [][Script]_vars

\* ------------------------------------------------- scoring_model.py
\* Series.min() and Series.max(), which skip NaN.
SeriesMin(a) ==
  LET ok == {i \in 1..Len(a) : ~IsNaN(a[i])}
  IN IF ok = {} THEN NaN
     ELSE a[CHOOSE i \in ok : \A j \in ok : FLe(a[i], a[j])]

SeriesMax(a) ==
  LET ok == {i \in 1..Len(a) : ~IsNaN(a[i])}
  IN IF ok = {} THEN NaN
     ELSE a[CHOOSE i \in ok : \A j \in ok : FLe(a[j], a[i])]

\* (d - d.min()) / (d.max() - d.min()) * 10
MinMaxScore(d) ==
  [i \in 1..Len(d) |->
     FMul(FDiv(FSub(d[i], SeriesMin(d)), FSub(SeriesMax(d), SeriesMin(d))),
          F(10, 1))]

\* raw_efficiency = tortuosity * range_penalty, with
\* tortuosity = Driving_Distance / (Linear_Distance + 0.01) and
\* range_penalty = np.where(Linear_Distance > 5.0, 0.2, 1.0)
RawEfficiency(df) ==
  [i \in 1..Len(df.Area) |->
     FMul(FDiv(df.Driving_Distance[i],
               FAdd(df.Linear_Distance[i], F(1, 100))),
          IF FLt(F(5, 1), df.Linear_Distance[i]) THEN F(1, 5) ELSE F(1, 1))]

calculate_scores(df) ==
  LET demand == MinMaxScore(df.Population_Density)
      necessity == MinMaxScore(df.Congestion_Index)
      efficiency == MinMaxScore(RawEfficiency(df))
  IN [Area |-> df.Area,
      Demand_Score |-> demand,
      Necessity_Score |-> necessity,
      Efficiency_Score |-> efficiency,
      Total_Score |->
        [i \in 1..Len(df.Area) |->
           FAdd(FAdd(FMul(efficiency[i], F(1, 2)), FMul(demand[i], F(3, 10))),
                FMul(necessity[i], F(1, 5)))]]

\* final_scores = calculate_scores(raw_data)
CalculateScores ==
  /\ spc = "call"
  /\ scores' = calculate_scores(data_dict)
  /\ spc' = "returned"
  /\ UNCHANGED << simVars, data_dict >>

\* The metrics an area of an input table is given.
Densities == {F(2000, 1), F(12000, 1)}

Congestions == {F(1, 1), F(3, 2)}

\* (Driving_Distance, Linear_Distance)
Distances ==
  { << F(2, 1), F(99, 100) >>, << F(3, 1), F(199, 100) >>,
    << F(12, 1), F(599, 100) >> }

\* Areas of the largest input table.
MaxAreas == 3

\* calculate_scores called on a table of 1..MaxAreas areas.
InitScoring ==
  /\ \E n \in 1..MaxAreas :
       \E dens \in [1..n -> Densities], cong \in [1..n -> Congestions],
          dist \in [1..n -> Distances] :
         data_dict =
           [Area |-> [i \in 1..n |-> i],
            Population_Density |-> dens,
            Driving_Distance |-> [i \in 1..n |-> dist[i][1]],
            Linear_Distance |-> [i \in 1..n |-> dist[i][2]],
            Congestion_Index |-> cong]
  /\ scores = Unbound
  /\ spc = "call"
  /\ cfg = Reference(MaxTrials)
  /\ mt = [k \in 1..Period |-> 0]
  /\ rng = 0
  /\ seedCalls = 0
  /\ pc = "idle"
  /\ idx = 0
  /\ station = Unbound
  /\ data = Unbound
  /\ t = NoLocals
  /\ total_time_truck = Unbound
  /\ total_time_mtr = Unbound
  /\ results_data = Unbound
  /\ df_results = Unbound
  /\ comparison_table = NoTable
  /\ drawLog = <<>>
  /\ run = 1
  /\ prev = Unbound

SpecScoring == InitScoring /\ [][CalculateScores]_vars

\* ------------------------------------------------------------ properties
\* The order of the draws of one station iteration.
StepOrder ==
  << "load", "unload", "last", "road",
     "first", "wait", "transfer", "drone_load", "flight", "rail" >>

TruckSteps == {"load", "unload", "last", "road"}

MtrSteps == {"first", "wait", "transfer", "drone_load", "flight", "rail"}

\* The logged draw of a step at a station, and the per-trial sum of the
\* logged draws of a set of steps.
Logged(s, step) ==
  drawLog[CHOOSE k \in 1..Len(drawLog) :
            drawLog[k].station = s /\ drawLog[k].step = step]

RECURSIVE SumOver(_, _, _)
SumOver(s, steps, i) ==
  IF steps = {} THEN F(0, 1)
  ELSE LET step == CHOOSE q \in steps : TRUE
       IN FAdd(Logged(s, step).samples[i], SumOver(s, steps \ {step}, i))

LoopFinished == pc \in {"df_results", "pivot", "time_saved", "improvement", "done"}

FrameBuilt == pc \in {"pivot", "time_saved", "improvement", "done"}

TruckSummed ==
  pc \in {"t_first", "t_wait", "t_transfer", "t_drone_load", "t_flight",
          "t_rail", "total_time_mtr", "record_truck", "record_mtr"}

MtrSummed == pc \in {"record_truck", "record_mtr"}

\* C1: the second execution of the script, with the same configuration and
\* the same generator, builds the same table as the first: the same rows
\* in the same order, with equal Average_Time, P95_Time and Std_Dev.
C1_RerunIdentical == (run = 2 /\ FrameBuilt) => df_results = prev

C1_Witness ==
  /\ run = 2
  /\ pc = "done"
  /\ Len(df_results) = 18
  /\ df_results = prev
  /\ \E i \in 1..Len(df_results) : df_results[i].Std_Dev # F(0, 1)

\* C2: the generator is seeded once, before the first draw, and never
\* again; the draws are made station by station in registration order and
\* within a station in the order load, unload, last, road, first, wait,
\* transfer, drone_load, flight, rail; the first draw starts in the seeded
\* state and every later one in the state its predecessor left, which is
\* N_SIMULATIONS samples further on.
C2_SeededOnceSequential ==
  /\ seedCalls <= 1
  /\ drawLog # <<>> => seedCalls = 1 /\ rng = drawLog[Len(drawLog)].after
  /\ \A k \in 1..Len(drawLog) :
       /\ drawLog[k].station = cfg.STATIONS_DB[((k - 1) \div 10) + 1].name
       /\ drawLog[k].step = StepOrder[((k - 1) % 10) + 1]
       /\ drawLog[k].before =
            (IF k = 1 THEN SEED % Len(mt) ELSE drawLog[k - 1].after)
       /\ drawLog[k].after = (drawLog[k].before + N_SIMULATIONS) % Len(mt)

C2_Witness ==
  /\ pc = "done"
  /\ Len(drawLog) = 90
  /\ seedCalls = 1
  /\ drawLog[2].before # drawLog[1].before

\* C3: once a model's total is computed for the station of the current
\* iteration it has N_SIMULATIONS entries, and entry i is the sum of the
\* i-th samples of the draws of that station's steps: four for the truck,
\* six for rail and drone.
C3_PerTrialSum ==
  /\ TruckSummed =>
       /\ Len(total_time_truck) = N_SIMULATIONS
       /\ \A i \in 1..N_SIMULATIONS :
            total_time_truck[i] = SumOver(station, TruckSteps, i)
  /\ MtrSummed =>
       /\ Len(total_time_mtr) = N_SIMULATIONS
       /\ \A i \in 1..N_SIMULATIONS :
            total_time_mtr[i] = SumOver(station, MtrSteps, i)

C3_Witness ==
  /\ MtrSummed
  /\ N_SIMULATIONS >= 2
  /\ \A step \in TruckSteps \cup MtrSteps :
       Logged(station, step).samples[1] # Logged(station, step).samples[2]
  /\ total_time_truck[1] # total_time_truck[2]
  /\ total_time_mtr[1] # total_time_mtr[2]

\* The total-time array of a model at a station, from the logged draws.
LoggedTotal(s, steps) ==
  [i \in 1..N_SIMULATIONS |-> SumOver(s, steps, i)]

InRange(x, low, high) == FLe(F(low, 1), x) /\ FLe(x, F(high, 1))

\* C4: when the loop has finished, results_data holds, for the stations in
\* registration order, the truck row and then the rail-drone row of each
\* station and nothing else: every (Station, Mode) pair once; the truck
\* row is reduced from draws whose road leg was drawn from that station's
\* truck_range, the rail-drone row from draws whose rail leg was drawn
\* around that station's mtr_time.
C4_RowsInRegistrationOrder ==
  LoopFinished =>
    LET db == cfg.STATIONS_DB
    IN /\ Len(results_data) = 2 * Len(db)
       /\ \A k \in 1..Len(db) :
            /\ results_data[2 * k - 1] =
                 StatsRow(db[k].name, "Traditional Truck",
                          LoggedTotal(db[k].name, TruckSteps))
            /\ results_data[2 * k] =
                 StatsRow(db[k].name, "MTR + Drone",
                          LoggedTotal(db[k].name, MtrSteps))
            /\ Logged(db[k].name, "road").low = db[k].truck_range[1]
            /\ Logged(db[k].name, "road").high = db[k].truck_range[2]
            /\ \A i \in 1..N_SIMULATIONS :
                 InRange(Logged(db[k].name, "road").samples[i],
                         db[k].truck_range[1], db[k].truck_range[2])
            /\ Logged(db[k].name, "rail").low = db[k].mtr_time
            /\ \A i \in 1..N_SIMULATIONS :
                 LET x == Logged(db[k].name, "rail").samples[i]
                     w == FMul(F(3, 1), cfg.scale)
                 IN /\ FLe(FSub(F(db[k].mtr_time, 1), w), x)
                    /\ FLe(x, FAdd(F(db[k].mtr_time, 1), w))
       /\ \A k \in 1..Len(db) :
            \A m \in {"Traditional Truck", "MTR + Drone"} :
              Cardinality({i \in 1..Len(results_data) :
                             /\ results_data[i].Station = db[k].name
                             /\ results_data[i].Mode = m}) = 1

C4_Witness ==
  /\ pc = "done"
  /\ Len(results_data) = 18
  /\ results_data[1].Station = "Admiralty"
  /\ results_data[18].Station = "University"
  /\ results_data[18].Mode = "MTR + Drone"
  /\ results_data[17].Average_Time # results_data[15].Average_Time

\* The Average_Time of the row of a station and mode in the frame.
AverageOf(s, m) ==
  df_results[CHOOSE i \in 1..Len(df_results) :
               df_results[i].Station = s /\ df_results[i].Mode = m].Average_Time

\* The position of a station in the comparison table.
RowOf(s) ==
  CHOOSE i \in 1..Len(comparison_table.index) : comparison_table.index[i] = s

\* C5: the finished comparison table has one row per station, and in the
\* row of a station Time Saved is that station's truck mean minus that
\* station's rail-drone mean and Improvement is Time Saved over that
\* station's truck mean, times 100.
C5_ComparisonPerStation ==
  pc = "done" =>
    /\ Len(comparison_table.index) = Len(cfg.STATIONS_DB)
    /\ \A k \in 1..Len(cfg.STATIONS_DB) :
         LET s == cfg.STATIONS_DB[k].name
             truck == AverageOf(s, "Traditional Truck")
             drone == AverageOf(s, "MTR + Drone")
             c == comparison_table.cols
         IN /\ \E i \in 1..Len(comparison_table.index) :
                 comparison_table.index[i] = s
            /\ c["Traditional Truck"][RowOf(s)] = truck
            /\ c["MTR + Drone"][RowOf(s)] = drone
            /\ c["Time Saved (min)"][RowOf(s)] = FSub(truck, drone)
            /\ c["Improvement (%)"][RowOf(s)] =
                 FMul(FDiv(FSub(truck, drone), truck), F(100, 1))

C5_Witness ==
  /\ pc = "done"
  /\ Len(comparison_table.index) = 9
  /\ comparison_table.index[3] = "Fo Tan"
  /\ AverageOf("Fo Tan", "Traditional Truck")
       # AverageOf("Admiralty", "Traditional Truck")
  /\ IsFinite(comparison_table.cols["Improvement (%)"][3])

\* Whether every logged draw of a station lies in its step's range: a
\* uniform step in [low, high], the rail step within 3 * 0.5 of its mean.
RespectsRanges(s) ==
  \A k \in 1..Len(drawLog) :
    drawLog[k].station = s =>
      \A i \in 1..Len(drawLog[k].samples) :
        IF drawLog[k].step = "rail"
        THEN /\ FLe(FSub(F(drawLog[k].low, 1), F(3, 2)), drawLog[k].samples[i])
             /\ FLe(drawLog[k].samples[i], FAdd(F(drawLog[k].low, 1), F(3, 2)))
        ELSE InRange(drawLog[k].samples[i], drawLog[k].low, drawLog[k].high)

\* C6: whenever the draws of University respect the step ranges, its
\* rail-drone mean is below its truck mean, and its Improvement is above 0.
C6_UniversityImproves ==
  (FrameBuilt /\ RespectsRanges("University")) =>
    /\ FLt(AverageOf("University", "MTR + Drone"),
           AverageOf("University", "Traditional Truck"))
    /\ pc = "done" =>
         FLt(F(0, 1), comparison_table.cols["Improvement (%)"][RowOf("University")])

\* The closest case: every truck step at its minimum, every rail-drone
\* step at its maximum.
C6_Witness ==
  /\ pc = "done"
  /\ RespectsRanges("University")
  /\ AverageOf("University", "Traditional Truck") = F(48, 1)
  /\ AverageOf("University", "MTR + Drone") = F(95, 2)

\* The sums of the minima and of the maxima of the truck steps at a station.
TruckMinSum(d) ==
  cfg.TRUCK_OPS.loading[1] + cfg.TRUCK_OPS.unloading[1]
    + cfg.TRUCK_OPS.last_mile[1] + d.truck_range[1]

TruckMaxSum(d) ==
  cfg.TRUCK_OPS.loading[2] + cfg.TRUCK_OPS.unloading[2]
    + cfg.TRUCK_OPS.last_mile[2] + d.truck_range[2]

\* C7: the Average_Time of every truck row lies between the sum of the
\* truck steps' minima and the sum of their maxima, the road step's being
\* the station's truck_range; the truck mean of Sha Tin is above zero.
C7_TruckMeanWithinStepSums ==
  \A k \in 1..Len(cfg.STATIONS_DB) :
    \A i \in 1..Len(results_data) :
      (results_data[i].Station = cfg.STATIONS_DB[k].name
         /\ results_data[i].Mode = "Traditional Truck") =>
        /\ InRange(results_data[i].Average_Time,
                   TruckMinSum(cfg.STATIONS_DB[k]),
                   TruckMaxSum(cfg.STATIONS_DB[k]))
        /\ results_data[i].Station = "Sha Tin" =>
             FLt(F(0, 1), results_data[i].Average_Time)

C7_Witness ==
  \E i \in 1..Len(results_data) :
    /\ results_data[i].Station = "Sha Tin"
    /\ results_data[i].Mode = "Traditional Truck"
    /\ results_data[i].Average_Time = F(95, 1)

\* Whether a configuration has a malformed step: a uniform step with
\* min > max, or the normal step with a negative scale.
Malformed(c) ==
  \/ FLt(c.scale, F(0, 1))
  \/ \E r \in {c.TRUCK_OPS.loading, c.TRUCK_OPS.unloading,
               c.TRUCK_OPS.last_mile, c.MTR_OPS.first_mile,
               c.MTR_OPS.wait_time, c.MTR_OPS.transfer,
               c.MTR_OPS.drone_load, c.MTR_OPS.flight} : r[1] > r[2]
  \/ \E k \in 1..Len(c.STATIONS_DB) :
       c.STATIONS_DB[k].truck_range[1] > c.STATIONS_DB[k].truck_range[2]

\* C8: with a malformed step the run fails before anything is drawn: the
\* generator is never advanced, no row is recorded, the run does not
\* complete.
C8_MalformedFailsBeforeSampling ==
  Malformed(cfg) =>
    /\ drawLog = <<>>
    /\ Len(results_data) = 0
    /\ pc # "done"

\* C9: no comparison row is produced whose Improvement was computed by
\* dividing by a truck mean of zero.
C9_NoDivisionByZeroMean ==
  pc = "done" =>
    \A i \in 1..Len(comparison_table.index) :
      /\ comparison_table.cols["Traditional Truck"][i] # F(0, 1)
      /\ IsFinite(comparison_table.cols["Improvement (%)"][i])

\* Whether a score lies in 0..10.
InScoreRange(x) == FLe(F(0, 1), x) /\ FLe(x, F(10, 1))

\* C10: every component score and the total of every area lie in 0..10,
\* the area with the least raw value of a metric scoring 0 on it and the
\* area with the greatest scoring 10, also when all areas share a value.
C10_ScoresWithinZeroToTen ==
  spc = "returned" =>
    \A i \in 1..Len(scores.Area) :
      /\ InScoreRange(scores.Demand_Score[i])
      /\ InScoreRange(scores.Necessity_Score[i])
      /\ InScoreRange(scores.Efficiency_Score[i])
      /\ InScoreRange(scores.Total_Score[i])
      /\ data_dict.Population_Density[i] = SeriesMin(data_dict.Population_Density)
           => scores.Demand_Score[i] = F(0, 1)
      /\ data_dict.Population_Density[i] = SeriesMax(data_dict.Population_Density)
           => scores.Demand_Score[i] = F(10, 1)
      /\ data_dict.Congestion_Index[i] = SeriesMin(data_dict.Congestion_Index)
           => scores.Necessity_Score[i] = F(0, 1)
      /\ data_dict.Congestion_Index[i] = SeriesMax(data_dict.Congestion_Index)
           => scores.Necessity_Score[i] = F(10, 1)
====
